---- MODULE Spec2Model ----
(***************************************************************************)
(* Model of the FFNN feed-forward network engine (src/src/FFNN.hpp,        *)
(* src/src/FFNN.inl): Layer, ComputeBuffer, TrainBuffer and Network, with  *)
(* T = int and the Heaviside transfer function.  Containers are sequences; *)
(* a C++ index i (0-based) is element i+1 of the sequence.                 *)
(***************************************************************************)
EXTENDS Integers, Sequences, FiniteSets, TLC

VARIABLES l, cbuf, tbuf, output, back, calls, last, ops

vars == <<l, cbuf, tbuf, output, back, calls, last, ops>>

\* ---------------------------------------------------------------- bounds
MaxLayers == 3
MaxSize == 2
MaxOps == 2
MaxLayerOps == 3

\* ---------------------------------------------------------------- inputs
Bits == {0, 1}
WriteValues == {-1, 1}
Rates == {2}
Garbage == {0, 1}

Vec(S, n) == [1..n -> S]
Sizes == 1..MaxSize
NodeLists == UNION {Vec(Sizes, n) : n \in 1..MaxLayers}
NoGarbage == [i \in Sizes |-> 0]

\* ------------------------------------------------------ transfer function
transfer(x) == IF x >= 0 THEN 1 ELSE 0
derivative(y) == 1

\* ------------------------------------------------------------ containers
At(c, i) == c[i + 1]
\* *it for an iterator i past the start of a sequence; a read past the end
\* of the sequence yields an arbitrary value g[i+1]
Rd(c, i, g) == IF i < Len(c) THEN c[i + 1] ELSE g[i + 1]
\* n consecutive writes *it++ = vals[..] from the start of container c
\* faulty variant: *output++ += v instead of *output++ = v
Write_accumulate(c, vals) ==
  [i \in 1..Len(c) |-> IF i <= Len(vals) THEN c[i] + vals[i] ELSE c[i]]
Write(c, vals) == [i \in 1..Len(c) |-> IF i <= Len(vals) THEN vals[i] ELSE c[i]]
resize(c, s) == [i \in 1..s |-> IF i <= Len(c) THEN c[i] ELSE 0]

\* ----------------------------------------------------------------- Layer
Layer(inputs, outputs) ==
  [in_size |-> inputs, out_size |-> outputs,
   w |-> [j \in 1..((inputs + 1) * outputs) |-> 0]]

\* faulty variant: the bias entry of each output unit is not skipped
weightIdx_noBias(L, in, out) == out * L.in_size + in + 1
weightIdx(L, in, out) == out * (1 + L.in_size) + in + 1
biasIdx(L, out) == out * (1 + L.in_size)

RECURSIVE computeInner(_, _, _, _, _, _)
computeInner(L, input, g, in_i, w_iter, v) ==
  IF in_i < L.in_size
  THEN computeInner(L, input, g, in_i + 1, w_iter + 1,
                    v + Rd(input, in_i, g) * At(L.w, w_iter))
  ELSE v

RECURSIVE computeOuter(_, _, _, _, _, _)
computeOuter(L, input, g, out_i, w_iter, out) ==
  IF out_i < L.out_size
  THEN computeOuter(L, input, g, out_i + 1, w_iter + 1 + L.in_size,
         Append(out, transfer(computeInner(L, input, g, 0, w_iter + 1,
                                           At(L.w, w_iter)))))
  ELSE out

\* the out_size values Layer::compute writes through its output iterator
Layer_compute(L, input, g) == computeOuter(L, input, g, 0, 0, <<>>)

seedBack(L, input, bk, g) ==
  [i \in 1..Len(bk) |-> IF i <= L.in_size THEN Rd(input, i - 1, g) ELSE bk[i]]

RECURSIVE trainInner(_, _, _, _, _, _, _, _)
trainInner(L, rate, input, g, delta, in_i, w_iter, st) ==
  IF in_i < L.in_size
  THEN LET w1 == [st.w EXCEPT ![w_iter + 1] = @ - rate * delta * Rd(input, in_i, g)]
           b1 == [st.back EXCEPT ![in_i + 1] = @ - delta * At(w1, w_iter)]
       IN trainInner(L, rate, input, g, delta, in_i + 1, w_iter + 1,
                     [w |-> w1, back |-> b1])
  ELSE st

RECURSIVE trainOuter(_, _, _, _, _, _, _, _, _)
trainOuter(L, rate, input, outp, target, g, out_i, w_iter, st) ==
  IF out_i < L.out_size
  THEN LET delta == derivative(Rd(outp, out_i, g))
                      * (Rd(outp, out_i, g) - Rd(target, out_i, g))
           w0 == [st.w EXCEPT ![w_iter + 1] = @ - rate * delta]
       IN trainOuter(L, rate, input, outp, target, g, out_i + 1,
                     w_iter + 1 + L.in_size,
                     trainInner(L, rate, input, g, delta, 0, w_iter + 1,
                                [w |-> w0, back |-> st.back]))
  ELSE st

\* the weight store and the back container after Layer::train
Layer_train(L, rate, input, outp, target, bk, g) ==
  trainOuter(L, rate, input, outp, target, g, 0, 0,
             [w |-> L.w, back |-> seedBack(L, input, bk, g)])

\* --------------------------------------------------------- ComputeBuffer
EmptyBuffer == [A |-> <<>>, B |-> <<>>]

\* faulty variant: A.resize(s) without the size test
beginA_always(buf, s) == [buf EXCEPT !.A = resize(@, s)]
beginA(buf, s) == IF Len(buf.A) < s THEN [buf EXCEPT !.A = resize(@, s)] ELSE buf
beginB(buf, s) == IF Len(buf.B) < s THEN [buf EXCEPT !.B = resize(@, s)] ELSE buf

\* ------------------------------------------------ record of a Layer call
\* which container each iterator argument points into, and how many
\* elements that container holds at the time of the call
Ref(b, s) == [buf |-> b, slot |-> s]
NoRef == Ref("none", 0)

ComputeCall(k, src, srcLen, dst, dstLen) ==
  [fn |-> "compute", layer |-> k, input |-> src, inputLen |-> srcLen,
   output |-> dst, outputLen |-> dstLen, target |-> NoRef, targetLen |-> 0,
   back |-> NoRef, backLen |-> 0]

TrainCall(k, src, srcLen, outRef, outLen, tgt, tgtLen, bk, bkLen) ==
  [fn |-> "train", layer |-> k, input |-> src, inputLen |-> srcLen,
   output |-> outRef, outputLen |-> outLen, target |-> tgt, targetLen |-> tgtLen,
   back |-> bk, backLen |-> bkLen]

\* --------------------------------------------------------------- Network
Network(inputs, nodes) ==
  [k \in 1..Len(nodes) |-> Layer(IF k = 1 THEN inputs ELSE nodes[k - 1], nodes[k])]

inputs(net) == net[1].in_size
outputs(net) == net[Len(net)].out_size

\* faulty variant: the last layer always reads scratch A
computeLast_fromA(net, l_iter, src, srcRef, out0, buffer, g, cs) ==
  LET s2 == IF srcRef.buf = "B" THEN buffer.A ELSE src
      r2 == IF srcRef.buf = "B" THEN Ref("A", 0) ELSE srcRef
  IN [output |-> Write(out0, Layer_compute(net[l_iter + 1], s2, g)),
      buffer |-> buffer,
      calls |-> Append(cs, ComputeCall(l_iter, r2, Len(s2),
                                       Ref("output", 0), Len(out0)))]

\* l_iter->compute(b_iter, output) of line 161 / 173
computeLast(net, l_iter, src, srcRef, out0, buffer, g, cs) ==
  [output |-> Write(out0, Layer_compute(net[l_iter + 1], src, g)),
   buffer |-> buffer,
   calls |-> Append(cs, ComputeCall(l_iter, srcRef, Len(src),
                                    Ref("output", 0), Len(out0)))]

RECURSIVE computeLoop(_, _, _, _, _, _, _)
computeLoop(net, l_iter0, b_iter, out0, buffer, g, cs) ==
  LET l_last == Len(net) - 1
      l_iter == l_iter0 + 1
  IN IF l_iter = l_last
     THEN computeLast(net, l_iter, buffer[b_iter], Ref(b_iter, 0), out0, buffer, g, cs)
     ELSE LET L1 == net[l_iter + 1]
              bB == beginB(buffer, L1.out_size)
              buf1 == [bB EXCEPT !.B = Write(@, Layer_compute(L1, bB[b_iter], g))]
              cs1 == Append(cs, ComputeCall(l_iter, Ref(b_iter, 0), Len(bB[b_iter]),
                                            Ref("B", 0), Len(bB.B)))
              l_iter2 == l_iter + 1
          IN IF l_iter2 = l_last
             THEN computeLast(net, l_iter2, buf1.B, Ref("B", 0), out0, buf1, g, cs1)
             ELSE LET L2 == net[l_iter2 + 1]
                      bA == beginA(buf1, L2.out_size)
                      buf2 == [bA EXCEPT !.A = Write(@, Layer_compute(L2, bA.B, g))]
                      cs2 == Append(cs1, ComputeCall(l_iter2, Ref("B", 0), Len(bA.B),
                                                     Ref("A", 0), Len(bA.A)))
                  IN computeLoop(net, l_iter2, "A", out0, buf2, g, cs2)

\* faulty variant: a one-layer network computes through scratch A as well
Network_compute_viaA(net, input, out0, buffer, g) ==
  LET bA == beginA(buffer, net[1].out_size)
      buf1 == [bA EXCEPT !.A = Write(@, Layer_compute(net[1], input, g))]
      cs1 == <<ComputeCall(0, Ref("input", 0), Len(input), Ref("A", 0), Len(bA.A))>>
  IN IF Len(net) = 1
     THEN [output |-> Write(out0, SubSeq(buf1.A, 1, net[1].out_size)),
           buffer |-> buf1,
           calls |-> <<ComputeCall(0, Ref("input", 0), Len(input),
                                   Ref("output", 0), Len(out0))>>]
     ELSE computeLoop(net, 0, "A", out0, buf1, g, cs1)

\* Network::compute(input, output, buffer): the caller's output container
\* out0 after the call, the buffer after the call, the Layer calls made
Network_compute(net, input, out0, buffer, g) ==
  LET l_iter == 0
      l_last == Len(net) - 1
  IN IF l_iter = l_last
     THEN computeLast(net, l_iter, input, Ref("input", 0), out0, buffer, g, <<>>)
     ELSE LET bA == beginA(buffer, net[1].out_size)
              buf1 == [bA EXCEPT !.A = Write(@, Layer_compute(net[1], input, g))]
              cs1 == <<ComputeCall(0, Ref("input", 0), Len(input), Ref("A", 0), Len(bA.A))>>
          IN computeLoop(net, l_iter, "A", out0, buf1, g, cs1)

\* if (buffer.size() < l.size()) buffer.resize(l.size())
resizeTrainBuffer(buffer, n) ==
  IF Len(buffer) < n
  THEN [i \in 1..n |-> IF i <= Len(buffer) THEN buffer[i] ELSE EmptyBuffer]
  ELSE buffer

\* faulty variant: b_iter->beginA instead of std::next(b_iter)->beginA
RECURSIVE forwardLoop_sameSlot(_, _, _, _, _, _)
forwardLoop_sameSlot(net, l_iter0, b_iter, buffer, g, cs) ==
  LET l_last == Len(net)
      l_iter == l_iter0 + 1
  IN IF l_iter /= l_last
     THEN LET L == net[l_iter + 1]
              nb == beginA(buffer[b_iter + 1], L.out_size)
              src == buffer[b_iter + 1].A
              wr == [nb EXCEPT !.A = Write(@, Layer_compute(L, src, g))]
          IN forwardLoop_sameSlot(net, l_iter, b_iter + 1,
                         [buffer EXCEPT ![b_iter + 1] = wr], g,
                         Append(cs, ComputeCall(l_iter, Ref("A", b_iter), Len(src),
                                                Ref("A", b_iter), Len(nb.A))))
     ELSE [buffer |-> buffer, calls |-> cs, l_iter |-> l_iter, b_iter |-> b_iter]

RECURSIVE forwardLoop(_, _, _, _, _, _)
forwardLoop(net, l_iter0, b_iter, buffer, g, cs) ==
  LET l_last == Len(net)
      l_iter == l_iter0 + 1
  IN IF l_iter /= l_last
     THEN LET L == net[l_iter + 1]
              nb == beginA(buffer[b_iter + 2], L.out_size)
              src == buffer[b_iter + 1].A
              wr == [nb EXCEPT !.A = Write(@, Layer_compute(L, src, g))]
          IN forwardLoop(net, l_iter, b_iter + 1,
                         [buffer EXCEPT ![b_iter + 2] = wr], g,
                         Append(cs, ComputeCall(l_iter, Ref("A", b_iter), Len(src),
                                                Ref("A", b_iter + 1), Len(nb.A))))
     ELSE [buffer |-> buffer, calls |-> cs, l_iter |-> l_iter, b_iter |-> b_iter]

\* l_iter->train(rate, in, b_iter->A.begin(), tgt, b_iter->beginB(l_iter->inputs()))
trainCall(st, rate, l_iter, b_iter, inSeq, inRef, tgtSeq, tgtRef, g) ==
  LET L == st.l[l_iter + 1]
      e == beginB(st.buffer[b_iter + 1], L.in_size)
      r == Layer_train(L, rate, inSeq, e.A, tgtSeq, e.B, g)
  IN [l |-> [st.l EXCEPT ![l_iter + 1].w = r.w],
      buffer |-> [st.buffer EXCEPT ![b_iter + 1] = [e EXCEPT !.B = r.back]],
      calls |-> Append(st.calls,
                  TrainCall(l_iter, inRef, Len(inSeq), Ref("A", b_iter), Len(e.A),
                            tgtRef, Len(tgtSeq), Ref("B", b_iter), Len(e.B)))]

\* lines 206-216: the loop over the interior layers and the first layer
RECURSIVE backwardLoop(_, _, _, _, _, _)
backwardLoop(st, rate, input, l_iter0, b_iter, g) ==
  LET l_iter == l_iter0 - 1
  IN IF l_iter /= l_iter
     THEN backwardLoop(
            trainCall(st, rate, l_iter, b_iter,
                      st.buffer[b_iter].A, Ref("A", b_iter - 1),
                      st.buffer[b_iter + 2].B, Ref("B", b_iter + 1), g),
            rate, input, l_iter, b_iter - 1, g)
     ELSE trainCall(st, rate, l_iter, b_iter,
                    input, Ref("input", 0),
                    st.buffer[b_iter + 2].B, Ref("B", b_iter + 1), g)

\* Network::train(rate, input, target, buffer): the layers and the buffer
\* after the call, the buffer as it was at the end of the forward pass
\* (line 191), the Layer calls made
Network_train(net, rate, input, target, buffer, g) ==
  LET b0 == resizeTrainBuffer(buffer, Len(net))
      e0 == beginA(b0[1], net[1].out_size)
      b1 == [b0 EXCEPT ![1] = [e0 EXCEPT !.A = Write(@, Layer_compute(net[1], input, g))]]
      f == forwardLoop(net, 0, 0, b1, g,
             <<ComputeCall(0, Ref("input", 0), Len(input), Ref("A", 0), Len(e0.A))>>)
      st0 == [l |-> net, buffer |-> f.buffer, calls |-> f.calls]
      l_iter == f.l_iter - 1
      b_iter == f.b_iter
      l_last == 0
      res == IF l_iter = l_last
             THEN trainCall(st0, rate, l_iter, b_iter, input, Ref("input", 0),
                            target, Ref("target", 0), g)
             ELSE backwardLoop(
                    trainCall(st0, rate, l_iter, b_iter,
                              st0.buffer[b_iter].A, Ref("A", b_iter - 1),
                              target, Ref("target", 0), g),
                    rate, input, l_iter, b_iter - 1, g)
  IN [l |-> res.l, buffer |-> res.buffer, fwd |-> f.buffer, calls |-> res.calls]

\* the values the out-of-range reads of a train call on net may yield: the
\* call of line 213 reads in_size elements of the external input
GarbageFor(net) ==
  IF Len(net) >= 3 /\ net[Len(net) - 1].in_size > inputs(net)
  THEN [Sizes -> Garbage] ELSE {NoGarbage}

\* ----------------------------------------------------------------- state
Zeros(n) == [i \in 1..n |-> 0]

Op(name, k, n, rate, input, target, l0, fwd) ==
  [op |-> name, layer |-> k, n |-> n, rate |-> rate, input |-> input,
   target |-> target, l0 |-> l0, fwd |-> fwd]

\* ComputeBuffer and TrainBuffer are caller-owned with public containers:
\* a call may be handed fresh buffers or buffers holding earlier contents
Used == [i \in 1..(MaxSize + 1) |-> -3]
UsedBuffer == [A |-> Used, B |-> Used]
PriorBuffers ==
  { [c |-> EmptyBuffer, t |-> <<>>],
    [c |-> [A |-> Used, B |-> <<>>], t |-> <<UsedBuffer>>],
    [c |-> UsedBuffer, t |-> [i \in 1..(MaxLayers + 1) |-> UsedBuffer]] }

Init ==
  /\ \E i \in Sizes, nodes \in NodeLists : l = Network(i, nodes)
  /\ \E p \in PriorBuffers : cbuf = p.c /\ tbuf = p.t
  /\ output = <<>>
  /\ back = <<>>
  /\ calls = <<>>
  /\ last = Op("Network", 0, 0, 0, <<>>, <<>>, l, <<>>)
  /\ ops = 0

\* a standalone Layer, held as a one-layer sequence
InitLayer ==
  /\ \E i \in Sizes, o \in Sizes : l = <<Layer(i, o)>>
  /\ cbuf = EmptyBuffer
  /\ tbuf = <<>>
  /\ output = <<>>
  /\ back = <<>>
  /\ calls = <<>>
  /\ last = Op("Layer", 0, 0, 0, <<>>, <<>>, l, <<>>)
  /\ ops = 0

\* a new Network replaces the current one; the caller keeps its buffers
Construct(i, nodes) ==
  /\ l' = Network(i, nodes)
  /\ last' = Op("Network", 0, 0, 0, <<>>, <<>>, l', <<>>)
  /\ calls' = <<>>
  /\ ops' = ops + 1
  /\ UNCHANGED <<cbuf, tbuf, output, back>>

\* layer(k).weight(i) = v
SetWeightFlat(k, i, v) ==
  /\ k < Len(l) /\ i < Len(l[k + 1].w)
  /\ l' = [l EXCEPT ![k + 1].w[i + 1] = v]
  /\ last' = Op("weight", k, i, 0, <<>>, <<>>, l, <<>>)
  /\ calls' = <<>>
  /\ ops' = ops + 1
  /\ UNCHANGED <<cbuf, tbuf, output, back>>

\* layer(k).weight(in, out) = v
SetWeight(k, in, out, v) ==
  /\ k < Len(l) /\ in < l[k + 1].in_size /\ out < l[k + 1].out_size
  /\ l' = [l EXCEPT ![k + 1].w[weightIdx(l[k + 1], in, out) + 1] = v]
  /\ last' = Op("weight(in,out)", k, weightIdx(l[k + 1], in, out), 0, <<>>, <<>>, l, <<>>)
  /\ calls' = <<>>
  /\ ops' = ops + 1
  /\ UNCHANGED <<cbuf, tbuf, output, back>>

\* layer(k).bias(out) = v
SetBias(k, out, v) ==
  /\ k < Len(l) /\ out < l[k + 1].out_size
  /\ l' = [l EXCEPT ![k + 1].w[biasIdx(l[k + 1], out) + 1] = v]
  /\ last' = Op("bias", k, biasIdx(l[k + 1], out), 0, <<>>, <<>>, l, <<>>)
  /\ calls' = <<>>
  /\ ops' = ops + 1
  /\ UNCHANGED <<cbuf, tbuf, output, back>>

\* cbuf.beginA(n), cbuf.beginB(n) called by the owner of the buffer
BeginA(n) ==
  /\ cbuf' = beginA(cbuf, n)
  /\ last' = Op("beginA", 0, n, 0, <<>>, <<>>, l, <<>>)
  /\ calls' = <<>>
  /\ ops' = ops + 1
  /\ UNCHANGED <<l, tbuf, output, back>>

BeginB(n) ==
  /\ cbuf' = beginB(cbuf, n)
  /\ last' = Op("beginB", 0, n, 0, <<>>, <<>>, l, <<>>)
  /\ calls' = <<>>
  /\ ops' = ops + 1
  /\ UNCHANGED <<l, tbuf, output, back>>

\* layer(k).compute(input, output) into a caller's container of out_size
LayerCompute(k, input) ==
  /\ k < Len(l) /\ Len(input) = l[k + 1].in_size
  /\ output' = Write(Zeros(l[k + 1].out_size), Layer_compute(l[k + 1], input, NoGarbage))
  /\ last' = Op("Layer::compute", k, 0, 0, input, <<>>, l, <<>>)
  /\ calls' = <<>>
  /\ ops' = ops + 1
  /\ UNCHANGED <<l, cbuf, tbuf, back>>

\* layer(k).train(rate, input, output, target, back) on the output
\* container of a prior compute and a caller's back container of in_size
LayerTrain(k, rate, input, target) ==
  /\ k < Len(l) /\ Len(input) = l[k + 1].in_size
  /\ Len(target) = l[k + 1].out_size /\ Len(output) = l[k + 1].out_size
  /\ LET r == Layer_train(l[k + 1], rate, input, output, target,
                          Zeros(l[k + 1].in_size), NoGarbage)
     IN /\ l' = [l EXCEPT ![k + 1].w = r.w]
        /\ back' = r.back
  /\ last' = Op("Layer::train", k, 0, rate, input, target, l, <<>>)
  /\ calls' = <<>>
  /\ ops' = ops + 1
  /\ UNCHANGED <<cbuf, tbuf, output>>

\* net.compute(input, output, cbuf)
NetCompute(input) ==
  /\ Len(input) = inputs(l)
  /\ LET r == Network_compute(l, input, Zeros(outputs(l)), cbuf, NoGarbage)
     IN /\ output' = r.output
        /\ cbuf' = r.buffer
        /\ calls' = r.calls
  /\ last' = Op("compute", 0, 0, 0, input, <<>>, l, <<>>)
  /\ ops' = ops + 1
  /\ UNCHANGED <<l, tbuf, back>>

\* net.compute(input, output): ComputeBuffer temp
NetComputeTemp(input) ==
  /\ Len(input) = inputs(l)
  /\ LET r == Network_compute(l, input, Zeros(outputs(l)), EmptyBuffer, NoGarbage)
     IN /\ output' = r.output
        /\ calls' = r.calls
  /\ last' = Op("compute_temp", 0, 0, 0, input, <<>>, l, <<>>)
  /\ ops' = ops + 1
  /\ UNCHANGED <<l, cbuf, tbuf, back>>

\* net.train(rate, input, target, tbuf)
NetTrain(rate, input, target) ==
  /\ Len(input) = inputs(l) /\ Len(target) = outputs(l)
  /\ \E g \in GarbageFor(l) :
       LET r == Network_train(l, rate, input, target, tbuf, g)
       IN /\ l' = r.l
          /\ tbuf' = r.buffer
          /\ calls' = r.calls
          /\ last' = Op("train", 0, 0, rate, input, target, l, r.fwd)
  /\ ops' = ops + 1
  /\ UNCHANGED <<cbuf, output, back>>

\* net.train(rate, input, target): TrainBuffer temp
NetTrainTemp(rate, input, target) ==
  /\ Len(input) = inputs(l) /\ Len(target) = outputs(l)
  /\ \E g \in GarbageFor(l) :
       LET r == Network_train(l, rate, input, target, <<>>, g)
       IN /\ l' = r.l
          /\ calls' = r.calls
          /\ last' = Op("train_temp", 0, 0, rate, input, target, l, r.fwd)
  /\ ops' = ops + 1
  /\ UNCHANGED <<cbuf, tbuf, output, back>>

InputVecs == UNION {Vec(Bits, n) : n \in Sizes}
LayerIdx == 0..(MaxLayers - 1)
FlatIdx == 0..((MaxSize + 1) * MaxSize - 1)
CellIdx == 0..(MaxSize - 1)
Requests == 0..(MaxSize + 1)

\* the number of operations of a run is capped
Budget(n) == ops < n

Next ==
  \/ \E i \in Sizes, nodes \in NodeLists : Budget(MaxOps) /\ Construct(i, nodes)
  \/ \E k \in LayerIdx, i \in FlatIdx, v \in WriteValues :
       Budget(MaxOps) /\ SetWeightFlat(k, i, v)
  \/ \E k \in LayerIdx, i \in CellIdx, o \in CellIdx, v \in WriteValues :
       Budget(MaxOps) /\ SetWeight(k, i, o, v)
  \/ \E k \in LayerIdx, o \in CellIdx, v \in WriteValues :
       Budget(MaxOps) /\ SetBias(k, o, v)
  \/ \E n \in Requests : Budget(MaxOps) /\ BeginA(n)
  \/ \E n \in Requests : Budget(MaxOps) /\ BeginB(n)
  \/ \E k \in LayerIdx, input \in InputVecs : Budget(MaxOps) /\ LayerCompute(k, input)
  \/ \E input \in InputVecs : Budget(MaxOps) /\ NetCompute(input)
  \/ \E input \in InputVecs : Budget(MaxOps) /\ NetComputeTemp(input)
  \/ \E r \in Rates, input \in InputVecs, target \in InputVecs :
       Budget(MaxOps) /\ NetTrain(r, input, target)
  \/ \E r \in Rates, input \in InputVecs, target \in InputVecs :
       Budget(MaxOps) /\ NetTrainTemp(r, input, target)

Spec == Init /\ [][Next]_vars

\* the operations of one standalone Layer
NextLayer ==
  \/ \E i \in FlatIdx, v \in WriteValues : Budget(MaxLayerOps) /\ SetWeightFlat(0, i, v)
  \/ \E i \in CellIdx, o \in CellIdx, v \in WriteValues :
       Budget(MaxLayerOps) /\ SetWeight(0, i, o, v)
  \/ \E o \in CellIdx, v \in WriteValues : Budget(MaxLayerOps) /\ SetBias(0, o, v)
  \/ \E input \in InputVecs : Budget(MaxLayerOps) /\ LayerCompute(0, input)
  \/ \E r \in Rates, input \in InputVecs, target \in InputVecs :
       Budget(MaxLayerOps) /\ LayerTrain(0, r, input, target)

SpecLayer == InitLayer /\ [][NextLayer]_vars

\* ================================================================ claims
TrainOps == {"train", "train_temp"}
ComputeOps == {"compute", "compute_temp"}

\* the activations of layer k: Layer::compute of layers 0..k composed by
\* hand, each on exactly the previous layer's output
RECURSIVE Act(_, _, _)
Act(net, input, k) ==
  Layer_compute(net[k + 1], IF k = 0 THEN input ELSE Act(net, input, k - 1), NoGarbage)

RECURSIVE Sum(_, _)
Sum(f, n) == IF n = 0 THEN 0 ELSE f[n] + Sum(f, n - 1)

\* C1: one Network::train call, after its forward pass, invokes Layer::train
\* exactly once on every layer, in the order N-1, N-2, ..., 0.
C1_TrainEveryLayerInReverse ==
  last.op \in TrainOps =>
    LET N == Len(last.l0)
    IN /\ Len(calls) = 2 * N
       /\ \A j \in 1..N : calls[j].fn = "compute" /\ calls[j].layer = j - 1
       /\ \A j \in 1..N : calls[N + j].fn = "train" /\ calls[N + j].layer = N - j

C3_BackUsesPreUpdateWeight ==
  last.op = "Layer::train" =>
    LET L == last.l0[1]
        delta(o) == derivative(output[o + 1]) * (output[o + 1] - last.target[o + 1])
    IN back = [i \in 1..L.in_size |->
                 last.input[i]
                 - Sum([o \in 1..L.out_size |->
                          delta(o - 1) * At(L.w, weightIdx(L, i - 1, o - 1))],
                       L.out_size)]

\* C4: on a one-layer Network, compute gives the output of that layer's
\* Layer::compute and leaves the ComputeBuffer untouched, and train leaves
\* the weights that Layer::compute followed by Layer::train leaves.
C4_SingleLayerDelegates ==
  [][Len(l) = 1 =>
       /\ last'.op \in ComputeOps =>
            /\ output' = Write(Zeros(l[1].out_size),
                               Layer_compute(l[1], last'.input, NoGarbage))
            /\ cbuf' = cbuf
       /\ last'.op \in TrainOps =>
            /\ Len(l') = 1
            /\ l'[1].w = Layer_train(l[1], last'.rate, last'.input,
                                     Layer_compute(l[1], last'.input, NoGarbage),
                                     last'.target, Zeros(l[1].in_size), NoGarbage).w
     ]_vars

C4_Witness ==
  /\ last.op = "train" /\ Len(l) = 1
  /\ l[1].w /= last.l0[1].w
  /\ \E i \in 1..Len(last.l0[1].w) : last.l0[1].w[i] /= 0

\* C5: the containers A and B of a ComputeBuffer (the caller's and every
\* TrainBuffer entry) and the number of TrainBuffer entries never shrink, and
\* right after beginA(n) / beginB(n) the container holds at least n elements.
C5_BuffersOnlyGrow ==
  [][/\ Len(cbuf'.A) >= Len(cbuf.A)
     /\ Len(cbuf'.B) >= Len(cbuf.B)
     /\ Len(tbuf') >= Len(tbuf)
     /\ \A k \in 1..Len(tbuf) :
          /\ Len(tbuf'[k].A) >= Len(tbuf[k].A)
          /\ Len(tbuf'[k].B) >= Len(tbuf[k].B)
     /\ last'.op = "beginA" => Len(cbuf'.A) >= last'.n
     /\ last'.op = "beginB" => Len(cbuf'.B) >= last'.n
    ]_vars

C5_Witness ==
  /\ last.op = "train" /\ Len(tbuf) > Len(l)
  /\ \E k \in 1..Len(l) : Len(tbuf[k].A) > l[k].out_size
  /\ Len(cbuf.A) > MaxSize

\* C6: every Layer's weight store has exactly (I+1)*O entries, and bias(o),
\* weight(i,o) address pairwise distinct in-range indices covering the store.
C6_ShapeInvariant ==
  \A k \in 1..Len(l) :
    LET L == l[k]
        n == (L.in_size + 1) * L.out_size
        bs == {biasIdx(L, o) : o \in 0..(L.out_size - 1)}
        ws == {weightIdx(L, i, o) : i \in 0..(L.in_size - 1), o \in 0..(L.out_size - 1)}
    IN /\ Len(L.w) = n
       /\ Cardinality(bs) = L.out_size
       /\ Cardinality(ws) = L.in_size * L.out_size
       /\ bs \cap ws = {}
       /\ bs \cup ws = 0..(n - 1)

C6_Witness ==
  /\ last.op \in TrainOps /\ Len(l) = 2
  /\ l[1].in_size = 2 /\ l[1].out_size = 2
  /\ l[1].w /= last.l0[1].w /\ l[2].w /= last.l0[2].w

\* C7: compute changes no weight, and the output of Network::compute is the
\* output the same call produces with a fresh ComputeBuffer, whatever the
\* buffer passed in held.
C7_ComputeIgnoresBufferContents ==
  [][/\ last'.op \in ComputeOps =>
          /\ l' = l
          /\ output' = Network_compute(l, last'.input, Zeros(outputs(l)),
                                       EmptyBuffer, NoGarbage).output
     /\ last'.op = "Layer::compute" => l' = l
    ]_vars

C7_Witness ==
  /\ last.op = "compute" /\ Len(l) >= 2
  /\ \E i \in 1..Len(cbuf.A) : cbuf.A[i] = Used[1]
  /\ \E k \in 1..Len(l) : \E i \in 1..Len(l[k].w) : l[k].w[i] /= 0

\* C8 as claimed: after the forward pass of Network::train, entry k's A is
\* exactly layer k's output activations (its length is the output size).
C8_EntryIsExactlyActivations ==
  last.op \in TrainOps =>
    \A k \in 1..Len(last.l0) : last.fwd[k].A = Act(last.l0, last.input, k - 1)

\* C8 amended: after the forward pass of Network::train, entry k's A holds at
\* least out_size elements (exactly out_size with a fresh TrainBuffer) and
\* its first out_size elements are layer k's output activations computed from
\* the weights on entry to the call.
C8_EntryStartsWithActivations ==
  last.op \in TrainOps =>
    \A k \in 1..Len(last.l0) :
      /\ Len(last.fwd[k].A) >= last.l0[k].out_size
      /\ last.op = "train_temp" => Len(last.fwd[k].A) = last.l0[k].out_size
      /\ SubSeq(last.fwd[k].A, 1, last.l0[k].out_size) = Act(last.l0, last.input, k - 1)

C8_Witness ==
  /\ last.op = "train" /\ Len(last.l0) >= 2
  /\ \E k \in 1..Len(last.l0) : Len(last.fwd[k].A) > last.l0[k].out_size
  /\ \E k \in 1..Len(last.l0) : \E i \in 1..Len(last.l0[k].w) : last.l0[k].w[i] /= 0

\* C9: every Layer::train call of Network::train on layer k gets input = the
\* external input iff k = 0, else entry k-1's A; output = entry k's A;
\* target = the external target iff k = N-1, else entry k+1's B written by
\* the train call on layer k+1 earlier in the pass; back = entry k's B grown
\* to at least the layer's input size.
C9_TrainArguments ==
  last.op \in TrainOps =>
    \A j \in 1..Len(calls) :
      calls[j].fn = "train" =>
        LET c == calls[j]
            k == c.layer
            N == Len(last.l0)
        IN /\ c.input = (IF k = 0 THEN Ref("input", 0) ELSE Ref("A", k - 1))
           /\ c.output = Ref("A", k)
           /\ c.target = (IF k = N - 1 THEN Ref("target", 0) ELSE Ref("B", k + 1))
           /\ k < N - 1 =>
                \E j2 \in 1..(j - 1) : calls[j2].fn = "train" /\ calls[j2].back = c.target
           /\ c.back = Ref("B", k)
           /\ c.backLen >= last.l0[k + 1].in_size

\* C10: every Layer::compute and Layer::train call made by Network::compute
\* and Network::train is handed an input of at least in_size elements, an
\* output and a target of at least out_size, a back of at least in_size.
C10_CallsStayInRange ==
  \A j \in 1..Len(calls) :
    LET c == calls[j]
        L == last.l0[c.layer + 1]
    IN /\ c.inputLen >= L.in_size
       /\ c.outputLen >= L.out_size
       /\ c.fn = "train" => c.targetLen >= L.out_size /\ c.backLen >= L.in_size

====
